---- MODULE Spec2Model ----
(***************************************************************************)
(* Model of the AVR door controller firmware core:                         *)
(*   - the event pool / queue, handler registry and dispatch loop          *)
(*     (event_add, event_remove, event_handler_add, event_run_handlers,    *)
(*     event_loop_run_once, event_loop_run), and                           *)
(*   - the door access state machine (on_event and its helpers).           *)
(* Pointers are slot numbers (events) or handler names (registry); NULL    *)
(* is 0 for event pointers and "NULL" for handlers and sources.            *)
(***************************************************************************)
EXTENDS Naturals, Integers, Sequences, FiniteSets, TLC

VARIABLES
    events_storage,  \* struct event events_storage[MAX_PENDING_EVENTS]
    events,          \* head of the pending list (slot number or NULL)
    events_tail,     \* tail of the pending list (slot number or NULL)
    handlers,        \* head of the handler registry
    hnext,           \* hdlr->next of every handler object
    pc,              \* position of the main context in event_loop_run
    ev,              \* event_loop_run_once: the popped event
    hdlr,            \* event_run_handlers: the (static) traversal pointer
    dc,              \* struct door_ctrl (state, pin, open_status, timer, triggers)
    cfg,             \* struct door_ctrl_config: is check_key configured
    ck,              \* observer: the check_key call of the latest handler run
    budget,          \* inputs the environment may still produce
    nadd,            \* observer: event_add calls so far (stamps the events)
    added,           \* observer: stamps of the accepted events, in order
    cancelled,       \* observer: stamps unlinked by event_remove
    popped,          \* observer: stamps popped by the loop, in order
    calls,           \* observer: handlers invoked for the popped event
    reg_order,       \* observer: handlers in the order they were registered
    keys,            \* observer: the digits keyed in the PIN entry under way
    lost,            \* observer: the door event that event_add refused last
    so,              \* door_ctrl_open taken statement by statement: its position
                     \* and locals, and the level the open button reported last
    host,            \* the daemon: the method call, the record written, the reply
    rm               \* observer: the latest event_handler_remove call made
                     \* outside the dispatch (argument, registry before and
                     \* after, value returned, read through NULL)

qvars == <<events_storage, events, events_tail>>
hvars == <<handlers, hnext>>
lvars == <<pc, ev, hdlr>>
dvars == <<dc, cfg, ck>>
ovars == <<nadd, added, cancelled, popped, calls, reg_order>>
yvars == <<so, host, rm>>
xvars == <<keys, lost, so, host, rm>>
vars == <<events_storage, events, events_tail, handlers, hnext, pc, ev, hdlr,
          dc, cfg, ck, budget, nadd, added, cancelled, popped, calls, reg_order,
          keys, lost, so, host, rm>>

----------------------------------------------------------------------------
(* Bounds of the model *)

\* event_add and event_remove calls made in the queue runs
MaxCalls == 9
\* ... and in the queue runs with event_remove from interrupts (a pool
\* filled after a removal)
MaxCallsS == 10
\* event_add and event_remove calls made in the registry runs
MaxCallsH == 4
\* ... and in the registry runs checked for liveness
MaxCallsL == 3
\* reader events and button changes in the door runs
MaxInputs == 3
\* keys and cards in the keypad runs (8 digits and what closes the entry)
MaxKeys == 9
\* events posted in the burst runs (one of the door, then a pool full)
MaxFlood == 9
\* digits of the card strings handed to the daemon
MaxCardLen == 9
\* level changes the open button reports in the preemption runs
MaxPreempt == 3

----------------------------------------------------------------------------
(* Program constants *)

MAX_PENDING_EVENTS == 8
NULL == 0
NullSrc == "NULL"
NullHdlr == "NULL"
ENOMEM == 12
EINVAL == 22
ENOENT == 2

Slots == 1..MAX_PENDING_EVENTS

\* A free pool slot.  event_add overwrites next, id and val before they are
\* read again, so the stale id and val of a free slot are kept as 0.
FreeSlot == [next |-> NULL, source |-> NullSrc, id |-> 0, val |-> 0]

\* The queue as one value: the three objects the critical sections protect.
Queue == [storage |-> events_storage, events |-> events, events_tail |-> events_tail]

----------------------------------------------------------------------------
(* Bit arithmetic on naturals *)

RECURSIVE BitAnd(_, _)
BitAnd(a, b) ==
    IF a = 0 \/ b = 0 THEN 0
    ELSE (IF a % 2 = 1 /\ b % 2 = 1 THEN 1 ELSE 0) + 2 * BitAnd(a \div 2, b \div 2)

RECURSIVE BitXor(_, _)
BitXor(a, b) ==
    IF a = 0 THEN b
    ELSE IF b = 0 THEN a
    ELSE (IF a % 2 = b % 2 THEN 0 ELSE 1) + 2 * BitXor(a \div 2, b \div 2)

----------------------------------------------------------------------------
(* Event pool and queue *)

\* Mutant: a full pool hands out slot 1 again
FindFreeWrap(q) ==
    IF \E i \in Slots : q.storage[i].source = NullSrc
    THEN CHOOSE i \in Slots :
            /\ q.storage[i].source = NullSrc
            /\ \A j \in Slots : j < i => q.storage[j].source # NullSrc
    ELSE 1

\* event_add, lines 418-422: the first slot whose source is NULL, or NULL
FindFree(q) ==
    IF \E i \in Slots : q.storage[i].source = NullSrc
    THEN CHOOSE i \in Slots :
            /\ q.storage[i].source = NullSrc
            /\ \A j \in Slots : j < i => q.storage[j].source # NullSrc
    ELSE NULL

\* Mutant: the new event is linked at the head of the list
event_add_head(q, source, id, val) ==
    IF source = NullSrc THEN [q |-> q, ret |-> -EINVAL]
    ELSE LET e == FindFree(q) IN
         IF e = NULL THEN [q |-> q, ret |-> -ENOMEM]
         ELSE [q |-> [storage |-> [q.storage EXCEPT ![e] =
                         [next |-> q.events, source |-> source, id |-> id, val |-> val]],
                      events |-> e,
                      events_tail |-> IF q.events_tail # NULL THEN q.events_tail ELSE e],
               ret |-> 0]

\* event_add: the queue after the call and the value returned
event_add(q, source, id, val) ==
    IF source = NullSrc THEN [q |-> q, ret |-> -EINVAL]
    ELSE LET e == FindFree(q) IN
         IF e = NULL THEN [q |-> q, ret |-> -ENOMEM]
         ELSE LET filled == [q.storage EXCEPT ![e] =
                               [next |-> NULL, source |-> source, id |-> id, val |-> val]]
                  linked == IF q.events_tail # NULL
                            THEN [filled EXCEPT ![q.events_tail].next = e]
                            ELSE filled
              IN [q |-> [storage |-> linked,
                         events |-> IF q.events_tail # NULL THEN q.events ELSE e,
                         events_tail |-> e],
                  ret |-> 0]

\* Mutant: events_tail is not moved back when the last node is unlinked
RECURSIVE event_remove_loop_tail(_, _, _, _, _)
event_remove_loop_tail(q, e, prev, source, id) ==
    IF e = NULL THEN q
    ELSE LET next == q.storage[e].next IN
         IF q.storage[e].source # source \/ q.storage[e].id # id
         THEN event_remove_loop_tail(q, next, e, source, id)
         ELSE LET s1 == IF prev # NULL
                        THEN [q.storage EXCEPT ![prev].next = next]
                        ELSE q.storage
                  s2 == [s1 EXCEPT ![e] = FreeSlot]
              IN event_remove_loop_tail(
                     [storage |-> s2,
                      events |-> IF prev # NULL THEN q.events ELSE next,
                      events_tail |-> q.events_tail],
                     next, prev, source, id)

\* Mutant: an unlinked node keeps its source (the slot is never free again)
RECURSIVE event_remove_loop_leak(_, _, _, _, _)
event_remove_loop_leak(q, e, prev, source, id) ==
    IF e = NULL THEN q
    ELSE LET next == q.storage[e].next IN
         IF q.storage[e].source # source \/ q.storage[e].id # id
         THEN event_remove_loop_leak(q, next, e, source, id)
         ELSE LET s1 == IF prev # NULL
                        THEN [q.storage EXCEPT ![prev].next = next]
                        ELSE q.storage
                  s2 == [s1 EXCEPT ![e].next = NULL]
              IN event_remove_loop_leak(
                     [storage |-> s2,
                      events |-> IF prev # NULL THEN q.events ELSE next,
                      events_tail |-> IF next = NULL THEN prev ELSE q.events_tail],
                     next, prev, source, id)

\* event_remove, lines 451-465: the loop over the list, from ev with prev
RECURSIVE event_remove_loop(_, _, _, _, _)
event_remove_loop(q, e, prev, source, id) ==
    IF e = NULL THEN q
    ELSE LET next == q.storage[e].next IN
         IF q.storage[e].source # source \/ q.storage[e].id # id
         THEN event_remove_loop(q, next, e, source, id)
         ELSE LET s1 == IF prev # NULL
                        THEN [q.storage EXCEPT ![prev].next = next]
                        ELSE q.storage
                  s2 == [s1 EXCEPT ![e] = FreeSlot]
              IN event_remove_loop(
                     [storage |-> s2,
                      events |-> IF prev # NULL THEN q.events ELSE next,
                      events_tail |-> IF next = NULL THEN prev ELSE q.events_tail],
                     next, prev, source, id)

\* event_remove: the queue after the call (the call returns 0, or -EINVAL
\* for a NULL source, which leaves the queue alone)
event_remove(q, source, id) ==
    IF source = NullSrc THEN q
    ELSE event_remove_loop(q, q.events, NULL, source, id)

\* The slots linked from `e`, in list order (at most `fuel` of them)
RECURSIVE ListFrom(_, _, _)
ListFrom(storage, e, fuel) ==
    IF e = NULL \/ fuel = 0 THEN <<>>
    ELSE <<e>> \o ListFrom(storage, storage[e].next, fuel - 1)

Linked(q) == ListFrom(q.storage, q.events, MAX_PENDING_EVENTS + 1)

\* The values (stamps) of the pending events, in list order
Pending(q) == [i \in 1..Len(Linked(q)) |-> q.storage[Linked(q)[i]].val]

Range(s) == {s[i] : i \in 1..Len(s)}

----------------------------------------------------------------------------
(* Handler registry *)

\* The handler objects: one per door controller (dc->hdlr) and three
\* further subscribers used to exercise the source and mask/id filter.
GenericHandlers == {"h1", "h2", "h3"}
Handlers == GenericHandlers \cup {"dc"}

\* hdlr->source, hdlr->mask, hdlr->id of each handler object
HdlrSource(h) == CASE h = "dc" -> "wr"
                   [] h = "h1" -> "srcA"
                   [] h = "h2" -> "srcA"
                   [] OTHER    -> "srcB"
HdlrMask(h) == IF h = "h2" THEN 1 ELSE 0
HdlrId(h) == IF h = "h2" THEN 1 ELSE 0

\* event_handler_add, lines 372-375: the registry after the call
event_handler_add(reg, h) ==
    [handlers |-> h, hnext |-> [reg.hnext EXCEPT ![h] = reg.handlers]]

\* event_handler_remove, lines 393-398: the search for the node before hdlr,
\* from node h on. The loop reads h->next before anything else: with an empty
\* registry that is a read through NULL (fault).
RECURSIVE event_handler_remove_loop(_, _, _, _)
event_handler_remove_loop(nxt, h, target, fuel) ==
    IF h = NullHdlr THEN [hnext |-> nxt, ret |-> -ENOENT, fault |-> TRUE]
    ELSE IF nxt[h] = NullHdlr \/ fuel = 0
    THEN [hnext |-> nxt, ret |-> -ENOENT, fault |-> FALSE]
    ELSE IF nxt[h] = target
    THEN [hnext |-> [nxt EXCEPT ![h] = nxt[target]], ret |-> 0, fault |-> FALSE]
    ELSE event_handler_remove_loop(nxt, nxt[h], target, fuel - 1)

\* event_handler_remove, lines 380-405: the registry after the call and
\* the value returned
event_handler_remove(reg, h) ==
    IF h = NullHdlr
    THEN [handlers |-> reg.handlers, hnext |-> reg.hnext, ret |-> -EINVAL, fault |-> FALSE]
    ELSE IF h = reg.handlers
    THEN [handlers |-> reg.hnext[h],
          hnext |-> [reg.hnext EXCEPT ![h] = NullHdlr],
          ret |-> 0, fault |-> FALSE]
    ELSE LET l == event_handler_remove_loop(reg.hnext, reg.handlers, h,
                                            Cardinality(Handlers))
         IN [handlers |-> reg.handlers,
             hnext |-> [l.hnext EXCEPT ![h] = NullHdlr],
             ret |-> l.ret, fault |-> l.fault]

\* The registered handlers in list order (at most `fuel` of them)
RECURSIVE RegFrom(_, _, _)
RegFrom(nxt, h, fuel) ==
    IF h = NullHdlr \/ fuel = 0 THEN <<>>
    ELSE <<h>> \o RegFrom(nxt, nxt[h], fuel - 1)

Registered == RegFrom(hnext, handlers, Cardinality(Handlers) + 1)

\* Mutant: the mask/id filter is not applied
HandlerMatchesSource(h, e) == HdlrSource(h) = e.source

\* event_run_handlers, lines 476-479: the two `continue` tests
HandlerMatches(h, e) ==
    /\ HdlrSource(h) = e.source
    /\ ~ (HdlrMask(h) # 0 /\ BitAnd(e.id, HdlrMask(h)) # HdlrId(h))

----------------------------------------------------------------------------
(* Dispatch loop *)

\* Mutant: the slot is given back to the pool when it is detached
PopSlotFreed(s) == FreeSlot

\* event_loop_run_once, line 495: the popped node is detached, not freed
PopSlot(s) == [s EXCEPT !.next = NULL]

\* Mutant: the loop sleeps after every turn
SleepCondAlways == TRUE

\* event_loop_run, line 525: the condition handed to sleep_if
SleepCond == events = NULL

\* sleep_if(cond): the check and the sleep are one uninterruptible step
sleep_if(cond) == IF cond THEN "asleep" ELSE "once"

\* Any interrupt ends the sleep; the loop then runs event_loop_run_once
WakeUp(p) == IF p = "asleep" THEN "once" ELSE p

\* event_loop_run_once, lines 489-497: the atomic pop of the list's head
event_loop_run_once_pop ==
    /\ pc = "once"
    /\ IF events # NULL
       THEN /\ ev' = events
            /\ events' = events_storage[events].next
            /\ events_tail' = IF events_storage[events].next = NULL
                              THEN NULL ELSE events_tail
            /\ events_storage' =
                   [events_storage EXCEPT ![events] = PopSlot(events_storage[events])]
            /\ hdlr' = handlers
            /\ pc' = "handlers"
       ELSE /\ ev' = NULL
            /\ pc' = "sleep_if"
            /\ UNCHANGED <<qvars, hdlr>>

\* event_loop_run_once, line 502, once event_run_handlers has returned
event_loop_run_once_free ==
    /\ pc = "handlers"
    /\ hdlr = NullHdlr
    /\ events_storage' = [events_storage EXCEPT ![ev] = FreeSlot]
    /\ pc' = "sleep_if"
    /\ UNCHANGED <<events, events_tail, ev, hdlr>>

\* event_loop_run, line 525
event_loop_run_sleep ==
    /\ pc = "sleep_if"
    /\ pc' = sleep_if(SleepCond)
    /\ UNCHANGED <<qvars, ev, hdlr>>

----------------------------------------------------------------------------
(* Door controller *)

\* Event ids and key codes.  The headers that number them are not part of
\* the sources at hand; the code only needs them to be distinct.
WIEGAND_READER_ERROR == 0
WIEGAND_READER_EVENT_KEY == 1
WIEGAND_READER_EVENT_CARD == 2
DOOR_CTRL_EVENT_STATE_CHANGED == 16
DOOR_CTRL_EVENT_BUZZER_FINISHED == 17
DOOR_CTRL_EVENT_IDLE_TIMEOUT == 18
\* an id that no case of on_event names
UNKNOWN_EVENT == 99
WIEGAND_KEY_ESC == 10
WIEGAND_KEY_ENTER == 11

DOOR_OPEN_FROM_READER == 0
DOOR_OPEN_FROM_BUTTON == 1

DoorStates == {"IDLE", "READING_PIN", "OPENING", "REJECTED", "TIMEOUT", "ERROR"}
SettleStates == {"OPENING", "REJECTED", "TIMEOUT", "ERROR"}

\* A uint32_t as its 8 nibbles, most significant first
Pow16(n) == IF n = 0 THEN 1 ELSE 16 * (IF n = 1 THEN 1 ELSE 16 * (IF n = 2 THEN 1
            ELSE 16 * (IF n = 3 THEN 1 ELSE 16 * (IF n = 4 THEN 1 ELSE 16 * (IF n = 5
            THEN 1 ELSE 16 * (IF n = 6 THEN 1 ELSE 16))))))
U32(v) == [i \in 1..8 |-> (v \div Pow16(8 - i)) % 16]
ZeroPin == [i \in 1..8 |-> 0]

\* Mutant: the first digit is shifted into what the accumulator holds
PinSeedStale(val) == [i \in 1..8 |-> IF i = 8 THEN val % 16 ELSE dc.pin[i + 1]]

\* line 218: dc->pin = (-1 & ~0xF) | (val.u & 0xF)
PinSeed(val) == [i \in 1..8 |-> IF i = 8 THEN val % 16 ELSE 15]
\* Mutant: the accumulator is not shifted before the digit is stored
PinShiftLow(pin, key) == [pin EXCEPT ![8] = key % 16]

\* lines 249-250: dc->pin <<= 4; dc->pin = (dc->pin & ~0xF) | (key & 0xF)
PinShift(pin, key) == [i \in 1..8 |-> IF i = 8 THEN key % 16 ELSE pin[i + 1]]
\* line 233: dc->pin ^= val.u
PinXor(pin, val) == [i \in 1..8 |-> BitXor(pin[i], U32(val)[i])]

BIT(n) == IF n = 0 THEN 1 ELSE 2

\* The states whose entry deschedules the idle timer (lines 76-79)
DescheduleStates == {"IDLE", "REJECTED", "OPENING", "ERROR"}

\* door_ctrl_set_state, built without DEBUG (the DEBUG build also posts a
\* STATE_CHANGED event, which on_event only prints); st is the controller,
\* the queue and the observer
door_ctrl_set_state(st, state) ==
    IF st.dc.state = state THEN st
    ELSE LET s1 == [st EXCEPT !.dc.state = state]
             s2 == IF state \in DescheduleStates
                   THEN [s1 EXCEPT !.dc.idle_timer = FALSE,
                                   !.q = event_remove(s1.q, "wr",
                                                      DOOR_CTRL_EVENT_IDLE_TIMEOUT)]
                   ELSE s1
         IN s2

\* Mutant: a missing validator counts as success
door_ctrl_check_key_open(res) == IF ~ cfg.check_key THEN 0 ELSE res

\* door_ctrl_check_key; res is what the configured validator answers
door_ctrl_check_key(res) == IF ~ cfg.check_key THEN -ENOENT ELSE res

\* Mutant: the triggers are commanded whenever open_status changes
set_open_call_changed(old_status, new_status) ==
    IF old_status = new_status THEN "none"
    ELSE IF new_status # 0 THEN "trigger_set(1)"
    ELSE "trigger_start(open_time)"

\* door_ctrl_set_open, lines 125-134: the call made on the relay and on the
\* LED trigger, if any
set_open_call(old_status, new_status) ==
    IF (old_status = 0) = (new_status = 0) THEN "none"
    ELSE IF new_status # 0 THEN "trigger_set(1)"
    ELSE "trigger_start(open_time)"

\* door_ctrl_set_open, lines 120-123: open_status with the bit of source
\* set or cleared
open_status_with(v, source, status) ==
    LET has == (v \div BIT(source)) % 2 = 1
    IN IF status # 0
       THEN (IF has THEN v ELSE v + BIT(source))
       ELSE (IF has THEN v - BIT(source) ELSE v)

\* door_ctrl_set_open
door_ctrl_set_open(d, source, status) ==
    LET old_status == d.open_status
        has == (old_status \div BIT(source)) % 2 = 1
        new == IF status # 0
               THEN (IF has THEN old_status ELSE old_status + BIT(source))
               ELSE (IF has THEN old_status - BIT(source) ELSE old_status)
        d1 == [d EXCEPT !.open_status = new]
        call == set_open_call(old_status, new)
    IN IF call = "none" THEN d1
       ELSE [d1 EXCEPT !.open_trigger = call, !.led_trigger = call]

\* door_ctrl_open
door_ctrl_open(st) ==
    LET s1 == door_ctrl_set_state(st, "OPENING")
        d2 == door_ctrl_set_open(s1.dc, DOOR_OPEN_FROM_READER, 1)
        d3 == door_ctrl_set_open(d2, DOOR_OPEN_FROM_READER, 0)
    IN [s1 EXCEPT !.dc = [d3 EXCEPT !.buzzer_trigger = "buzzer_accepted_seq"]]

\* door_ctrl_reject
door_ctrl_reject(st) ==
    [door_ctrl_set_state(st, "REJECTED") EXCEPT !.dc.buzzer_trigger = "buzzer_rejected_seq"]

\* door_ctrl_timeout
door_ctrl_timeout(st) ==
    [door_ctrl_set_state(st, "TIMEOUT") EXCEPT !.dc.buzzer_trigger = "buzzer_timeout_seq"]

\* door_ctrl_error
door_ctrl_error(st) ==
    [door_ctrl_set_state(st, "ERROR") EXCEPT !.dc.buzzer_trigger = "BUZZER_ERROR_DURATION"]

\* lines 223-227 and 241-244: the credential check and its two outcomes
CheckKeyThen(st, type, key, res) ==
    LET r == door_ctrl_check_key(res)
        s1 == [st EXCEPT !.ck = [called |-> TRUE, n |-> st.ck.n + 1,
                                 type |-> type, key |-> key, ret |-> r]]
    IN IF r = 0 THEN door_ctrl_open(s1) ELSE door_ctrl_reject(s1)

\* Mutant: a card in IDLE also arms the idle timer
on_event_idle_arm(st, event, val, res) ==
    IF event = WIEGAND_READER_EVENT_KEY
    THEN IF val = WIEGAND_KEY_ENTER THEN door_ctrl_error(st)
         ELSE IF val = WIEGAND_KEY_ESC THEN st
         ELSE LET s1 == [st EXCEPT !.dc.pin = PinSeed(val)]
                  s2 == door_ctrl_set_state(s1, "READING_PIN")
              IN [s2 EXCEPT !.dc.idle_timer = TRUE]
    ELSE [CheckKeyThen(st, "DOOR_CTRL_CARD", U32(val), res) EXCEPT !.dc.idle_timer = TRUE]

\* on_event, lines 204-230: case DOOR_CTRL_IDLE
on_event_idle(st, event, val, res) ==
    IF event = WIEGAND_READER_EVENT_KEY
    THEN IF val = WIEGAND_KEY_ENTER THEN door_ctrl_error(st)
         ELSE IF val = WIEGAND_KEY_ESC THEN st
         ELSE LET s1 == [st EXCEPT !.dc.pin = PinSeed(val)]
                  s2 == door_ctrl_set_state(s1, "READING_PIN")
              IN [s2 EXCEPT !.dc.idle_timer = TRUE]
    ELSE CheckKeyThen(st, "DOOR_CTRL_CARD", U32(val), res)

\* Mutant: a card closing a PIN entry is checked without the PIN
on_event_reading_pin_noxor(st, event, val, res) ==
    LET s0 == IF event = WIEGAND_READER_EVENT_CARD
              THEN [st EXCEPT !.dc.pin = U32(val)]
              ELSE st
        key == IF event = WIEGAND_READER_EVENT_CARD THEN WIEGAND_KEY_ENTER ELSE val % 256
    IN IF key = WIEGAND_KEY_ENTER
       THEN LET type == IF event = WIEGAND_READER_EVENT_CARD
                        THEN "DOOR_CTRL_CARD_AND_PIN" ELSE "DOOR_CTRL_PIN"
            IN [CheckKeyThen(s0, type, s0.dc.pin, res) EXCEPT !.dc.pin = ZeroPin]
       ELSE IF key = WIEGAND_KEY_ESC
       THEN door_ctrl_set_state(s0, "IDLE")
       ELSE [s0 EXCEPT !.dc.pin = PinShift(s0.dc.pin, key), !.dc.idle_timer = TRUE]

\* on_event, lines 231-253: case DOOR_CTRL_READING_PIN
on_event_reading_pin(st, event, val, res) ==
    LET s0 == IF event = WIEGAND_READER_EVENT_CARD
              THEN [st EXCEPT !.dc.pin = PinXor(st.dc.pin, val)]
              ELSE st
        key == IF event = WIEGAND_READER_EVENT_CARD THEN WIEGAND_KEY_ENTER ELSE val % 256
    IN IF key = WIEGAND_KEY_ENTER
       THEN LET type == IF event = WIEGAND_READER_EVENT_CARD
                        THEN "DOOR_CTRL_CARD_AND_PIN" ELSE "DOOR_CTRL_PIN"
            IN [CheckKeyThen(s0, type, s0.dc.pin, res) EXCEPT !.dc.pin = ZeroPin]
       ELSE IF key = WIEGAND_KEY_ESC
       THEN door_ctrl_set_state(s0, "IDLE")
       ELSE [s0 EXCEPT !.dc.pin = PinShift(s0.dc.pin, key), !.dc.idle_timer = TRUE]

\* Mutant: the settle states handle reader events as IDLE does
on_event_settle(st, event, val, res) ==
    CASE event = DOOR_CTRL_EVENT_STATE_CHANGED -> st
      [] event = DOOR_CTRL_EVENT_BUZZER_FINISHED -> door_ctrl_set_state(st, "IDLE")
      [] event = DOOR_CTRL_EVENT_IDLE_TIMEOUT -> door_ctrl_timeout(st)
      [] event = WIEGAND_READER_ERROR -> door_ctrl_error(st)
      [] event \in {WIEGAND_READER_EVENT_KEY, WIEGAND_READER_EVENT_CARD} ->
            (CASE st.dc.state = "READING_PIN" -> on_event_reading_pin(st, event, val, res)
               [] OTHER -> on_event_idle(st, event, val, res))
      [] OTHER -> door_ctrl_error(st)

\* on_event: the handler of the door controller
on_event(st, event, val, res) ==
    CASE event = DOOR_CTRL_EVENT_STATE_CHANGED -> st
      [] event = DOOR_CTRL_EVENT_BUZZER_FINISHED -> door_ctrl_set_state(st, "IDLE")
      [] event = DOOR_CTRL_EVENT_IDLE_TIMEOUT -> door_ctrl_timeout(st)
      [] event = WIEGAND_READER_ERROR -> door_ctrl_error(st)
      [] event \in {WIEGAND_READER_EVENT_KEY, WIEGAND_READER_EVENT_CARD} ->
            (CASE st.dc.state = "IDLE" -> on_event_idle(st, event, val, res)
               [] st.dc.state = "READING_PIN" -> on_event_reading_pin(st, event, val, res)
               [] OTHER -> st)
      [] OTHER -> door_ctrl_error(st)

\* door_ctrl_init: the controller after memset and configuration
DoorCtrlInit ==
    [state |-> "IDLE", pin |-> ZeroPin, open_status |-> 0, idle_timer |-> FALSE,
     open_trigger |-> "none", led_trigger |-> "none", buzzer_trigger |-> "idle"]

NoCheck == [called |-> FALSE, n |-> 0, type |-> "none", key |-> ZeroPin, ret |-> 0]

\* Observer of the PIN entry: no digit keyed, no entry aged out
NoKeys == [entered |-> <<>>, aged |-> FALSE]

\* Observer of refused event_add calls: none so far
NoLoss == -1

\* Observer of event_handler_remove: no call made yet
NoRemove == [called |-> FALSE, h |-> NullHdlr, before |-> <<>>, after |-> <<>>,
             ret |-> 0, fault |-> FALSE]

\* The main context is not inside door_ctrl_open; the button is released
NoSetOpen == [pc |-> "idle", status |-> 0, old_status |-> 0, tmp |-> 0, level |-> 0]


\* The digits keyed since the PIN entry began (a digit in IDLE begins one,
\* leaving READING_PIN ends it); aged is set once an entry ran into TIMEOUT
KeysAfter(k, from, to, e) ==
    LET digit == e.id = WIEGAND_READER_EVENT_KEY
                 /\ e.val \notin {WIEGAND_KEY_ESC, WIEGAND_KEY_ENTER}
    IN IF to # "READING_PIN"
       THEN [entered |-> <<>>,
             aged |-> k.aged \/ (from = "READING_PIN" /\ to = "TIMEOUT")]
       ELSE IF digit /\ from = "IDLE" THEN [k EXCEPT !.entered = <<e.val>>]
       ELSE IF digit /\ from = "READING_PIN"
            THEN [k EXCEPT !.entered = Append(k.entered, e.val)]
       ELSE k

----------------------------------------------------------------------------
(* Host daemon: access records written to and read from the controller.  *)
(* A string is the sequence of its characters, each as its distance from *)
(* '0' (a decimal digit is 0..9); a NULL string is Absent.                *)

\* The access types, numbered as access_record_types lists their names
ACCESS_TYPE_NONE == 0
ACCESS_TYPE_PIN == 1
ACCESS_TYPE_CARD == 2
ACCESS_TYPE_CARD_AND_PIN == 3
access_record_types == <<"none", "pin", "card", "pin+card">>
UBUS_STATUS_INVALID_ARGUMENT == 2
\* sizeof(skey)
SKEY_SIZE == 9

Absent == <<-1>>

\* sscanf(str, "%u", &card): the value of the leading decimal digits, and
\* whether there was one
RECURSIVE ScanUnsigned(_, _, _)
ScanUnsigned(str, i, acc) ==
    IF i > Len(str) \/ str[i] \notin 0..9 THEN [n |-> IF i > 1 THEN 1 ELSE 0, u |-> acc]
    ELSE ScanUnsigned(str, i + 1, 10 * acc + str[i])

\* "%u": the decimal digits of u
RECURSIVE FormatUnsigned(_)
FormatUnsigned(u) ==
    IF u < 10 THEN <<u>> ELSE Append(FormatUnsigned(u \div 10), u % 10)

\* snprintf(buf, size, ...): at most size - 1 characters are stored
snprintf(size, str) ==
    SubSeq(str, 1, IF Len(str) < size THEN Len(str) ELSE size - 1)

\* lines 263-269: pin = 0xFFFFFFFF, then pin = (pin << 4) | digit for each
\* character; "invalid" if a character is no digit
RECURSIVE PinFromString(_, _, _)
PinFromString(str, i, pin) ==
    IF i > Len(str) THEN [ok |-> TRUE, pin |-> pin]
    ELSE LET digit == str[i] % 256 IN
         IF digit > 9 THEN [ok |-> FALSE, pin |-> pin]
         ELSE PinFromString(str, i + 1, [n \in 1..8 |-> IF n = 8 THEN digit ELSE pin[n + 1]])

\* htole32 and le32toh: a uint32_t (8 nibbles) as 4 bytes, least significant first
htole32(k) ==
    <<16 * k[7] + k[8], 16 * k[5] + k[6], 16 * k[3] + k[4], 16 * k[1] + k[2]>>
le32toh(b) ==
    <<b[4] \div 16, b[4] % 16, b[3] \div 16, b[3] % 16,
      b[2] \div 16, b[2] % 16, b[1] \div 16, b[1] % 16>>

\* The value of a uint32_t given by its nibbles
NibblesValue(k) ==
    LET RECURSIVE V(_)
        V(i) == IF i = 0 THEN 0 ELSE 16 * V(i - 1) + k[i]
    IN V(8)

NoRecord == [key |-> <<0, 0, 0, 0>>, perms |-> 0]
NoReply == [type |-> "", key |-> <<>>, doors |-> 0, has_key |-> FALSE]

\* Lines 239-274 of write_set_access_query, shared word for word with lines
\* 162-203 of write_set_access_record_query but for the case of no string
EncodeAccess(args, none_ok) ==
    LET str_pin == args.pin
        str_card == args.card
        doors == args.doors % 16
        type == IF str_card # Absent /\ str_pin # Absent THEN ACCESS_TYPE_CARD_AND_PIN
                ELSE IF str_card # Absent THEN ACCESS_TYPE_CARD
                ELSE IF str_pin # Absent THEN ACCESS_TYPE_PIN
                ELSE ACCESS_TYPE_NONE
        scan == IF str_card # Absent THEN ScanUnsigned(str_card, 1, 0)
                ELSE [n |-> 1, u |-> 0]
        pin == IF str_pin # Absent
               THEN PinFromString(str_pin, 1, [n \in 1..8 |-> 15])
               ELSE [ok |-> TRUE, pin |-> ZeroPin]
        card == U32(scan.u)
        key == [n \in 1..8 |-> BitXor(card[n], pin.pin[n])]
    IN IF type = ACCESS_TYPE_NONE /\ ~ none_ok
       THEN [ret |-> UBUS_STATUS_INVALID_ARGUMENT, rec |-> NoRecord]
       ELSE IF scan.n # 1 \/ ~ pin.ok
       THEN [ret |-> UBUS_STATUS_INVALID_ARGUMENT, rec |-> NoRecord]
       ELSE [ret |-> 0,
             rec |-> [key |-> htole32(key), perms |-> (16 * doors + type) % 256]]

write_set_access_query(args) == EncodeAccess(args, FALSE)

write_set_access_record_query(args) == EncodeAccess(args, TRUE)

\* lines 105-111: the digits of a PIN, the 0xF nibbles skipped
PinToString(key) ==
    LET Kept(n) == n # 15
    IN SelectSeq(key, Kept)

\* read_get_access_record_response: the fields added to the reply
read_get_access_record_response(rec) ==
    LET perms0 == rec.perms
        key == le32toh(rec.key)
        perms == IF (perms0 \div 4) % 2 = 1 THEN 0 ELSE perms0
        type == perms % 4
    IN IF type = ACCESS_TYPE_NONE
       THEN [type |-> access_record_types[type + 1], key |-> <<>>, doors |-> 0,
             has_key |-> FALSE]
       ELSE [type |-> access_record_types[type + 1],
             key |-> IF type = ACCESS_TYPE_PIN THEN PinToString(key)
                     ELSE snprintf(SKEY_SIZE, FormatUnsigned(NibblesValue(key))),
             doors |-> perms \div 16,
             has_key |-> TRUE]

\* The daemon has no method call under way
NoCall == [phase |-> "idle", method |-> "none",
           args |-> [pin |-> Absent, card |-> Absent, doors |-> 0],
           ret |-> 0, rec |-> NoRecord, reply |-> NoReply]

----------------------------------------------------------------------------
(* Queue and registry runs: stamped events, subscribers that log *)

\* (source, id) of the events produced in the queue runs: by the interrupt,
\* and by the subscriber
KindsIsrQ == {<<"srcA", 3>>}
KindsHdlrQ == {<<"srcA", 2>>}
KindsQ == KindsIsrQ \cup KindsHdlrQ
\* ... and in the registry runs (a NULL source is refused by event_add)
KindsH == {<<"srcA", 3>>, <<"srcA", 2>>, <<"srcB", 3>>, <<NullSrc, 1>>}
\* (source, id) handed to event_remove
KindsR == {<<"srcA", 3>>, <<"srcA", 2>>, <<"srcB", 3>>}

SetQueue(q) ==
    /\ events_storage' = q.storage
    /\ events' = q.events
    /\ events_tail' = q.events_tail

\* A call of event_add whose value is the call's stamp
ApiAdd(k) ==
    LET r == event_add(Queue, k[1], k[2], nadd + 1) IN
    /\ budget > 0
    /\ budget' = budget - 1
    /\ nadd' = nadd + 1
    /\ SetQueue(r.q)
    /\ added' = IF r.ret = 0 THEN Append(added, nadd + 1) ELSE added
    /\ UNCHANGED cancelled

\* A call of event_remove
ApiRemove(k) ==
    LET q2 == event_remove(Queue, k[1], k[2]) IN
    /\ budget > 0
    /\ budget' = budget - 1
    /\ SetQueue(q2)
    /\ cancelled' = cancelled \cup (Range(Pending(Queue)) \ Range(Pending(q2)))
    /\ UNCHANGED <<nadd, added>>

\* event_add from an interrupt
IsrAddOf(K) ==
    /\ \E k \in K : ApiAdd(k)
    /\ pc' = WakeUp(pc)
    /\ UNCHANGED <<ev, hdlr, hvars, dvars, popped, calls, reg_order, xvars>>

\* event_remove from an interrupt
IsrRemoveOf(K) ==
    /\ \E k \in K : ApiRemove(k)
    /\ pc' = WakeUp(pc)
    /\ UNCHANGED <<ev, hdlr, hvars, dvars, popped, calls, reg_order, xvars>>

IsrRemove == IsrRemoveOf(KindsR)

\* event_handler_add before the loop is started
HandlerAdd ==
    /\ pc = "init"
    /\ \E h \in GenericHandlers :
          /\ h \notin Range(Registered)
          /\ LET r == event_handler_add([handlers |-> handlers, hnext |-> hnext], h) IN
             /\ handlers' = r.handlers
             /\ hnext' = r.hnext
          /\ reg_order' = Append(reg_order, h)
    /\ UNCHANGED <<qvars, lvars, dvars, budget, nadd, added, cancelled, popped, calls, xvars>>

\* event_loop_run is entered
StartLoop ==
    /\ pc = "init"
    /\ pc' = "once"
    /\ UNCHANGED <<qvars, hvars, ev, hdlr, dvars, budget, ovars, xvars>>

LoopPopQ ==
    /\ event_loop_run_once_pop
    /\ popped' = IF events # NULL THEN Append(popped, events_storage[events].val)
                 ELSE popped
    /\ calls' = <<>>
    /\ UNCHANGED <<hvars, dvars, budget, nadd, added, cancelled, reg_order, xvars>>

\* event_run_handlers, lines 475-481: one turn of the loop over a
\* subscriber that may call event_add or event_remove
RunGenericOf(K) ==
    /\ pc = "handlers"
    /\ hdlr # NullHdlr
    /\ IF HandlerMatches(hdlr, events_storage[ev])
       THEN /\ calls' = Append(calls, hdlr)
            /\ \E op \in {"nop", "add", "remove"} :
                  CASE op = "add" -> \E k \in K : ApiAdd(k)
                    [] op = "remove" -> \E k \in KindsR : ApiRemove(k)
                    [] OTHER -> UNCHANGED <<qvars, budget, nadd, added, cancelled>>
       ELSE UNCHANGED <<qvars, budget, nadd, added, cancelled, calls>>
    /\ hdlr' = hnext[hdlr]
    /\ UNCHANGED <<pc, ev, hvars, dvars, popped, reg_order, xvars>>

LoopFreeQ ==
    /\ event_loop_run_once_free
    /\ UNCHANGED <<hvars, dvars, budget, ovars, xvars>>

LoopSleepQ ==
    /\ event_loop_run_sleep
    /\ UNCHANGED <<hvars, dvars, budget, ovars, xvars>>

IsrAddQ == IsrAddOf(KindsIsrQ)
IsrAddH == IsrAddOf(KindsH)
RunGenericQ == RunGenericOf(KindsHdlrQ)
RunGenericH == RunGenericOf(KindsH)

DoorInit ==
    /\ dc = DoorCtrlInit
    /\ cfg = [check_key |-> TRUE]
    /\ ck = NoCheck

InitCommon ==
    /\ events_storage = [i \in Slots |-> FreeSlot]
    /\ events = NULL
    /\ events_tail = NULL
    /\ ev = NULL
    /\ hdlr = NullHdlr
    /\ nadd = 0
    /\ added = <<>>
    /\ cancelled = {}
    /\ popped = <<>>
    /\ calls = <<>>
    /\ keys = NoKeys
    /\ lost = NoLoss
    /\ so = NoSetOpen
    /\ host = NoCall
    /\ rm = NoRemove

\* Queue runs (bursts that fill the pool): h1 is registered and event_loop_run has been entered
InitQ ==
    /\ InitCommon
    /\ DoorInit
    /\ handlers = "h1"
    /\ hnext = [h \in Handlers |-> NullHdlr]
    /\ reg_order = <<"h1">>
    /\ pc = "once"
    /\ budget = MaxCalls

NextQ == IsrAddQ \/ LoopPopQ \/ RunGenericQ \/ LoopFreeQ \/ LoopSleepQ

SpecQ == InitQ /\ [][NextQ]_vars

\* Queue runs in which interrupts also call event_remove
InitS ==
    /\ InitCommon
    /\ DoorInit
    /\ handlers = "h1"
    /\ hnext = [h \in Handlers |-> NullHdlr]
    /\ reg_order = <<"h1">>
    /\ pc = "once"
    /\ budget = MaxCallsS

IsrRemoveS == IsrRemoveOf(KindsQ)

NextS == NextQ \/ IsrRemoveS

SpecS == InitS /\ [][NextS]_vars

\* Registry runs: nothing is registered yet
InitH ==
    /\ InitCommon
    /\ DoorInit
    /\ handlers = NullHdlr
    /\ hnext = [h \in Handlers |-> NullHdlr]
    /\ reg_order = <<>>
    /\ pc = "init"
    /\ budget = MaxCallsH

LoopStepH == LoopPopQ \/ RunGenericH \/ LoopFreeQ \/ LoopSleepQ

NextH == HandlerAdd \/ StartLoop \/ IsrAddH \/ IsrRemove \/ LoopStepH

SpecH == InitH /\ [][NextH]_vars

InitL ==
    /\ InitCommon
    /\ DoorInit
    /\ handlers = NullHdlr
    /\ hnext = [h \in Handlers |-> NullHdlr]
    /\ reg_order = <<>>
    /\ pc = "init"
    /\ budget = MaxCallsL

\* The main context keeps executing (it enters event_loop_run and runs the
\* loop unless asleep); interrupts come or not
FairSpecH == InitL /\ [][NextH]_vars /\ WF_vars(StartLoop \/ LoopStepH)

\* Registry set-up runs: event_handler_add and event_handler_remove calls
\* made before the loop is entered

\* event_handler_remove called outside the dispatch.  With an empty registry
\* and a non-NULL argument line 395 reads handlers->next through NULL: what
\* is read there is not defined, so the search ends at once (-ENOENT) or
\* goes on through the bytes it found and may report a match (0)
HandlerRemove ==
    /\ pc = "init"
    /\ \E g \in GenericHandlers \cup {NullHdlr} :
          LET r == event_handler_remove([handlers |-> handlers, hnext |-> hnext], g)
          IN /\ handlers' = r.handlers
             /\ hnext' = r.hnext
             /\ \E ret \in IF r.fault THEN {-ENOENT, 0} ELSE {r.ret} :
                   rm' = [called |-> TRUE, h |-> g, before |-> Registered,
                          after |-> RegFrom(r.hnext, r.handlers, Cardinality(Handlers) + 1),
                          ret |-> ret, fault |-> r.fault]
             /\ reg_order' = IF r.ret = 0 /\ ~ r.fault
                             THEN SelectSeq(reg_order, LAMBDA x : x # g)
                             ELSE reg_order
    /\ UNCHANGED <<qvars, lvars, dvars, budget, nadd, added, cancelled, popped, calls,
                   keys, lost, so, host>>

NextE == HandlerAdd \/ HandlerRemove

SpecE == InitH /\ [][NextE]_vars

\* Deregistration runs: subscribers that call event_handler_remove while
\* they are invoked

KindsD == {<<"srcA", 3>>, <<"srcB", 3>>}

IsrAddD == IsrAddOf(KindsD)

\* event_run_handlers, lines 475-481: one turn of the loop over a subscriber
\* that may call event_handler_remove; `hdlr = hdlr->next` is read once the
\* subscriber has returned
RunDeregistering ==
    /\ pc = "handlers"
    /\ hdlr # NullHdlr
    /\ IF HandlerMatches(hdlr, events_storage[ev])
       THEN /\ calls' = Append(calls, hdlr)
            /\ \E op \in {"nop", "remove"} :
                  IF op = "remove"
                  THEN \E g \in GenericHandlers :
                         LET r == event_handler_remove(
                                      [handlers |-> handlers, hnext |-> hnext], g)
                         IN /\ ~ r.fault
                            /\ handlers' = r.handlers
                            /\ hnext' = r.hnext
                            /\ reg_order' = IF r.ret = 0
                                            THEN SelectSeq(reg_order, LAMBDA x : x # g)
                                            ELSE reg_order
                  ELSE UNCHANGED <<hvars, reg_order>>
       ELSE UNCHANGED <<hvars, calls, reg_order>>
    /\ hdlr' = hnext'[hdlr]
    /\ UNCHANGED <<pc, ev, qvars, dvars, budget, nadd, added, cancelled, popped, xvars>>

LoopStepD == LoopPopQ \/ RunDeregistering \/ LoopFreeQ \/ LoopSleepQ

NextD == HandlerAdd \/ StartLoop \/ IsrAddD \/ LoopStepD

SpecD == InitH /\ [][NextD]_vars

----------------------------------------------------------------------------
(* Door runs: one door, its reader, timers, buzzer and open button *)

\* What the reader posts: a digit, ESC, ENTER, a card, a protocol error,
\* and an event id the controller does not know
Digits == {1}
Cards == {5}
ReaderInputs ==
    {<<WIEGAND_READER_EVENT_KEY, k>> : k \in Digits \cup {WIEGAND_KEY_ESC, WIEGAND_KEY_ENTER}}
    \cup {<<WIEGAND_READER_EVENT_CARD, c>> : c \in Cards}
    \cup {<<WIEGAND_READER_ERROR, 0>>, <<UNKNOWN_EVENT, 0>>}

\* What a configured validator may answer: success, or a denial
ValidatorResults == {0, -1}

\* event_add for the door's source from an interrupt; a refusal is noted
DoorEventAdd(id, val) ==
    LET r == event_add(Queue, "wr", id, val) IN
    /\ SetQueue(r.q)
    /\ lost' = IF r.ret # 0 THEN id ELSE lost

\* The reader's interrupt posts a decoded event
ReaderEventOf(I) ==
    /\ budget > 0
    /\ budget' = budget - 1
    /\ \E in \in I : DoorEventAdd(in[1], in[2])
    /\ pc' = WakeUp(pc)
    /\ UNCHANGED <<ev, hdlr, hvars, dvars, ovars, keys, yvars>>

ReaderEvent == ReaderEventOf(ReaderInputs)

\* on_idle_timeout: the (one-shot) idle timer expires
IdleTimerFired ==
    /\ dc.idle_timer
    /\ dc' = [dc EXCEPT !.idle_timer = FALSE]
    /\ DoorEventAdd(DOOR_CTRL_EVENT_IDLE_TIMEOUT, 0)
    /\ pc' = WakeUp(pc)
    /\ UNCHANGED <<ev, hdlr, hvars, cfg, ck, budget, ovars, keys, yvars>>

\* on_buzzer_finished: the buzzer trigger completes
BuzzerFinished ==
    /\ dc.buzzer_trigger # "idle"
    /\ dc' = [dc EXCEPT !.buzzer_trigger = "idle"]
    /\ DoorEventAdd(DOOR_CTRL_EVENT_BUZZER_FINISHED, 0)
    /\ pc' = WakeUp(pc)
    /\ UNCHANGED <<ev, hdlr, hvars, cfg, ck, budget, ovars, keys, yvars>>

\* on_open_button_changed: the debounced open button changes level
OpenButtonChanged ==
    /\ budget > 0
    /\ budget' = budget - 1
    /\ \E level \in {0, 1} :
          /\ level # (dc.open_status \div BIT(DOOR_OPEN_FROM_BUTTON)) % 2
          /\ dc' = door_ctrl_set_open(dc, DOOR_OPEN_FROM_BUTTON, level)
    /\ pc' = WakeUp(pc)
    /\ UNCHANGED <<qvars, ev, hdlr, hvars, cfg, ck, ovars, xvars>>

LoopPop ==
    /\ event_loop_run_once_pop
    /\ UNCHANGED <<hvars, dvars, budget, ovars, xvars>>

\* event_run_handlers, lines 475-481: one turn of the loop over the
\* registry, the handler being on_event
RunDoor ==
    /\ pc = "handlers"
    /\ hdlr # NullHdlr
    /\ IF HandlerMatches(hdlr, events_storage[ev])
       THEN \E res \in ValidatorResults :
               LET r == on_event([dc |-> dc, q |-> Queue, ck |-> NoCheck],
                                 events_storage[ev].id, events_storage[ev].val, res)
               IN /\ dc' = r.dc
                  /\ SetQueue(r.q)
                  /\ ck' = r.ck
                  /\ keys' = KeysAfter(keys, dc.state, r.dc.state, events_storage[ev])
       ELSE UNCHANGED <<qvars, dc, ck, keys>>
    /\ hdlr' = hnext[hdlr]
    /\ UNCHANGED <<pc, ev, hvars, cfg, budget, ovars, lost, yvars>>

\* event_loop_run_once, line 502; the observer forgets the handler's check
LoopFree ==
    /\ event_loop_run_once_free
    /\ ck' = NoCheck
    /\ UNCHANGED <<hvars, dc, cfg, budget, ovars, xvars>>

\* door_ctrl_init has registered the handler and event_loop_run is entered;
\* the validator is configured or not
Init ==
    /\ InitCommon
    /\ dc = DoorCtrlInit
    /\ cfg \in [check_key : BOOLEAN]
    /\ ck = NoCheck
    /\ handlers = "dc"
    /\ hnext = [h \in Handlers |-> NullHdlr]
    /\ reg_order = <<"dc">>
    /\ pc = "once"
    /\ budget = MaxInputs

Next ==
    \/ ReaderEvent
    \/ IdleTimerFired
    \/ BuzzerFinished
    \/ OpenButtonChanged
    \/ LoopPop
    \/ RunDoor
    \/ LoopFree
    \/ LoopSleepQ

Spec == Init /\ [][Next]_vars

----------------------------------------------------------------------------
(* Keypad runs: PIN entries of up to 8 digits and more, closed by ENTER or a card *)

DigitsP == {1, 2}
\* 0x10000003
CardsP == {268435459}
KeypadInputs ==
    {<<WIEGAND_READER_EVENT_KEY, k>> : k \in DigitsP \cup {WIEGAND_KEY_ENTER}}
    \cup {<<WIEGAND_READER_EVENT_CARD, c>> : c \in CardsP}

\* The keypad is slower than the loop: a key comes when the loop sleeps
KeypadEvent ==
    /\ pc = "asleep"
    /\ ReaderEventOf(KeypadInputs)

InitP ==
    /\ InitCommon
    /\ dc = DoorCtrlInit
    /\ cfg = [check_key |-> TRUE]
    /\ ck = NoCheck
    /\ handlers = "dc"
    /\ hnext = [h \in Handlers |-> NullHdlr]
    /\ reg_order = <<"dc">>
    /\ pc = "once"
    /\ budget = MaxKeys

NextP ==
    \/ KeypadEvent
    \/ IdleTimerFired
    \/ BuzzerFinished
    \/ LoopPop
    \/ RunDoor
    \/ LoopFree
    \/ LoopSleepQ

SpecP == InitP /\ [][NextP]_vars

----------------------------------------------------------------------------
(* Burst runs: the door gets a key or a card, then another source of *)
(* events (a second door, say) posts faster than the loop handles, up to *)
(* a full pool *)

FloodInputs == {<<WIEGAND_READER_EVENT_KEY, 1>>, <<WIEGAND_READER_EVENT_CARD, 5>>}

\* The reader of the door posts the first event of the run
ReaderFirst ==
    /\ budget = MaxFlood
    /\ ReaderEventOf(FloodInputs)

\* event_add from the interrupt of the other source
OtherSourceAdd ==
    /\ budget < MaxFlood
    /\ IsrAddOf(KindsIsrQ)

InitF ==
    /\ InitCommon
    /\ dc = DoorCtrlInit
    /\ cfg = [check_key |-> TRUE]
    /\ ck = NoCheck
    /\ handlers = "dc"
    /\ hnext = [h \in Handlers |-> NullHdlr]
    /\ reg_order = <<"dc">>
    /\ pc = "once"
    /\ budget = MaxFlood

LoopStepF == LoopPop \/ RunDoor \/ LoopFree \/ LoopSleepQ

NextF == ReaderFirst \/ OtherSourceAdd \/ IdleTimerFired \/ BuzzerFinished \/ LoopStepF

\* The main context keeps executing, an armed timer expires and a started
\* buzzer sequence completes; the reader posts or not
FairSpecF ==
    /\ InitF
    /\ [][NextF]_vars
    /\ WF_vars(LoopStepF)
    /\ WF_vars(IdleTimerFired)
    /\ WF_vars(BuzzerFinished)

----------------------------------------------------------------------------
(* Preemption runs: door_ctrl_open taken statement by statement in the main
   context, the open button's callback running between any two of them *)

\* on_event grants: door_ctrl_open is entered, line 138
OpenEnter ==
    /\ so.pc = "idle"
    /\ dc.state = "IDLE"
    /\ LET r == door_ctrl_set_state([dc |-> dc, q |-> Queue, ck |-> NoCheck], "OPENING")
       IN /\ dc' = r.dc
          /\ SetQueue(r.q)
    /\ so' = [so EXCEPT !.pc = "read", !.status = 1]
    /\ UNCHANGED <<hvars, lvars, cfg, ck, budget, ovars, keys, lost, host, rm>>

\* door_ctrl_set_open for the reader, line 118
SetOpenRead ==
    /\ so.pc = "read"
    /\ so' = [so EXCEPT !.pc = "load", !.old_status = dc.open_status]
    /\ UNCHANGED <<qvars, hvars, lvars, dvars, budget, ovars, keys, lost, host, rm>>

\* lines 121/123, the load of the read-modify-write: open_status is read
\* again, or the value read at line 118 is still in a register
SetOpenLoad ==
    /\ so.pc = "load"
    /\ \E v \in {dc.open_status, so.old_status} :
          so' = [so EXCEPT !.pc = "store", !.tmp = v]
    /\ UNCHANGED <<qvars, hvars, lvars, dvars, budget, ovars, keys, lost, host, rm>>

\* lines 121/123, the store of the read-modify-write
SetOpenStore ==
    /\ so.pc = "store"
    /\ LET v == open_status_with(so.tmp, DOOR_OPEN_FROM_READER, so.status)
       IN /\ dc' = [dc EXCEPT !.open_status = v]
          /\ so' = [so EXCEPT !.pc = "test", !.tmp = v]
    /\ UNCHANGED <<qvars, hvars, lvars, cfg, ck, budget, ovars, keys, lost, host, rm>>

\* lines 125-134: the edge test and the trigger calls, on open_status read
\* again or on the value just stored; then the next statement of
\* door_ctrl_open
SetOpenTest ==
    /\ so.pc = "test"
    /\ \E v \in {dc.open_status, so.tmp} :
          LET call == set_open_call(so.old_status, v)
          IN dc' = IF call = "none" THEN dc
                   ELSE [dc EXCEPT !.open_trigger = call, !.led_trigger = call]
    /\ so' = [so EXCEPT !.pc = IF so.status = 1 THEN "read" ELSE "buzzer",
                        !.status = 0]
    /\ UNCHANGED <<qvars, hvars, lvars, cfg, ck, budget, ovars, keys, lost, host, rm>>

\* door_ctrl_open, lines 141-142, and its return
OpenBuzzer ==
    /\ so.pc = "buzzer"
    /\ dc' = [dc EXCEPT !.buzzer_trigger = "buzzer_accepted_seq"]
    /\ so' = [so EXCEPT !.pc = "idle"]
    /\ UNCHANGED <<qvars, hvars, lvars, cfg, ck, budget, ovars, keys, lost, host, rm>>

\* on_event, lines 185-187: the buzzer sequence has finished
SettleDone ==
    /\ so.pc = "idle"
    /\ dc.state = "OPENING"
    /\ LET r == door_ctrl_set_state(
                    [dc |-> [dc EXCEPT !.buzzer_trigger = "idle"],
                     q |-> Queue, ck |-> NoCheck], "IDLE")
       IN /\ dc' = r.dc
          /\ SetQueue(r.q)
    /\ UNCHANGED <<hvars, lvars, cfg, ck, budget, ovars, keys, lost, so, host, rm>>

\* on_open_button_changed, run to its end between two statements of the
\* main context: the button reports its new level
OpenButtonPreempts ==
    /\ budget > 0
    /\ budget' = budget - 1
    /\ \E level \in {0, 1} :
          /\ level # so.level
          /\ dc' = door_ctrl_set_open(dc, DOOR_OPEN_FROM_BUTTON, level)
          /\ so' = [so EXCEPT !.level = level]
    /\ UNCHANGED <<qvars, hvars, lvars, cfg, ck, ovars, keys, lost, host, rm>>

InitB ==
    /\ InitCommon
    /\ DoorInit
    /\ handlers = "dc"
    /\ hnext = [h \in Handlers |-> NullHdlr]
    /\ reg_order = <<"dc">>
    /\ pc = "handlers"
    /\ budget = MaxPreempt

NextB ==
    \/ OpenEnter
    \/ SetOpenRead
    \/ SetOpenLoad
    \/ SetOpenStore
    \/ SetOpenTest
    \/ OpenBuzzer
    \/ SettleDone
    \/ OpenButtonPreempts

SpecB == InitB /\ [][NextB]_vars

----------------------------------------------------------------------------
(* Daemon runs: one access record is written, then read back *)

\* The strings of at most n characters over the alphabet A
Strings(A, n) == UNION {[1..k -> A] : k \in 0..n}

\* Decimal card strings that denote a 32-bit value (here: below 2^31)
CardStrings ==
    {str \in Strings({1, 2}, MaxCardLen) :
        /\ Len(str) >= 1
        /\ Len(str) <= 10
        /\ Len(str) = 10 => str[1] = 1}
    \cup {<<1, 2, 3, 4>>}

\* PIN strings: at most 8 digits (the nibbles of the key)
MaxPinLen == 8
PinStrings == Strings({0, 9}, MaxPinLen) \cup {<<1, 2, 3, 4>>}

DoorMasks == 0..15

HostArgs ==
    {[pin |-> Absent, card |-> c, doors |-> d] : c \in CardStrings, d \in DoorMasks}
    \cup {[pin |-> p, card |-> Absent, doors |-> d] : p \in PinStrings, d \in DoorMasks}

\* A set_access or set_access_record call: the query is written
HostQuery ==
    /\ host.phase = "idle"
    /\ \E method \in {"set_access", "set_access_record"} :
          \E args \in HostArgs :
             LET w == IF method = "set_access" THEN write_set_access_query(args)
                      ELSE write_set_access_record_query(args)
             IN host' = [host EXCEPT !.phase = "written", !.method = method,
                                     !.args = args, !.ret = w.ret, !.rec = w.rec]
    /\ UNCHANGED <<qvars, hvars, lvars, dvars, budget, ovars, keys, lost, so, rm>>

\* get_access_record: the record comes back and is read
HostResponse ==
    /\ host.phase = "written"
    /\ host.ret = 0
    /\ host' = [host EXCEPT !.phase = "read",
                            !.reply = read_get_access_record_response(host.rec)]
    /\ UNCHANGED <<qvars, hvars, lvars, dvars, budget, ovars, keys, lost, so, rm>>

InitA ==
    /\ InitCommon
    /\ DoorInit
    /\ handlers = NullHdlr
    /\ hnext = [h \in Handlers |-> NullHdlr]
    /\ reg_order = <<>>
    /\ pc = "init"
    /\ budget = 0

NextA == HostQuery \/ HostResponse

SpecA == InitA /\ [][NextA]_vars

----------------------------------------------------------------------------
(* Properties of the event queue and the dispatch loop *)

StrictlyIncreasing(s) == \A i, j \in 1..Len(s) : i < j => s[i] < s[j]

PoolFull == \A i \in Slots : events_storage[i].source # NullSrc

\* C2: whatever the interleaving of event_add (interrupts, handlers) with
\* the loop, the events are popped in the order their event_add completed,
\* none twice, none that event_remove cancelled, and every accepted event
\* is pending, cancelled or popped: with the queue drained, each accepted
\* and not cancelled event has been dispatched exactly once (its pop is
\* followed by one call of the registered subscriber).
C2_FifoExactlyOnce ==
    /\ StrictlyIncreasing(popped)
    /\ StrictlyIncreasing(Pending(Queue))
    /\ \A x \in Range(popped) : \A y \in Range(Pending(Queue)) : x < y
    /\ Range(popped) \cap cancelled = {}
    /\ Range(Pending(Queue)) \cap cancelled = {}
    /\ Range(added) = Range(popped) \cup cancelled \cup Range(Pending(Queue))
    /\ (events = NULL => Range(added) \ cancelled = Range(popped))
    /\ ((pc = "handlers" /\ hdlr = NullHdlr) => calls = <<"h1">>)

C2_Witness ==
    /\ events = NULL
    /\ pc = "asleep"
    /\ Len(popped) >= 4
    /\ cancelled # {}

\* C3: with all 8 slots occupied event_add returns -ENOMEM and leaves the
\* pool, head and tail as they are; after a refused event_add the accepted
\* events are still popped once each in their order.
C3_FullPoolRefuses ==
    /\ PoolFull =>
          \A k \in KindsQ :
             event_add(Queue, k[1], k[2], nadd + 1) = [q |-> Queue, ret |-> -ENOMEM]
    /\ Len(added) < nadd =>
          /\ StrictlyIncreasing(popped)
          /\ StrictlyIncreasing(Pending(Queue))
          /\ \A x \in Range(popped) : \A y \in Range(Pending(Queue)) : x < y
          /\ Range(added) = Range(popped) \cup cancelled \cup Range(Pending(Queue))

C3_Witness ==
    /\ Len(added) < nadd
    /\ Len(added) = MAX_PENDING_EVENTS
    /\ Len(popped) = MAX_PENDING_EVENTS
    /\ events = NULL

\* C4: event_remove(source, id) unlinks and frees exactly the pending
\* events with that source and id, keeps the others in their order with
\* head and tail on the first and last of them (so the next event_add is
\* appended after the last one), changes nothing without a match, and no
\* cancelled event is ever popped.
C4_RemoveExact ==
    /\ Range(popped) \cap cancelled = {}
    /\ \A k \in KindsR :
          LET q2 == event_remove(Queue, k[1], k[2])
              Keep(s) == ~ (events_storage[s].source = k[1] /\ events_storage[s].id = k[2])
              keep == SelectSeq(Linked(Queue), Keep)
              gone == Range(Linked(Queue)) \ Range(keep)
              a == event_add(q2, "srcA", 3, nadd + 1)
          IN /\ Linked(q2) = keep
             /\ q2.events = (IF keep = <<>> THEN NULL ELSE keep[1])
             /\ q2.events_tail = (IF keep = <<>> THEN NULL ELSE keep[Len(keep)])
             /\ \A s \in gone : q2.storage[s].source = NullSrc
             /\ \A s \in Slots \ gone :
                   /\ q2.storage[s].source = events_storage[s].source
                   /\ q2.storage[s].id = events_storage[s].id
                   /\ q2.storage[s].val = events_storage[s].val
             /\ a.ret = 0 => Linked(a.q) = Append(keep, FindFree(q2))
             /\ gone = {} => q2 = Queue

C4_Witness ==
    /\ popped = <<>>
    /\ Len(added) = nadd
    /\ cancelled = {2}
    /\ Pending(Queue) = <<1, 3>>
    /\ Linked(Queue) = <<1, 2>>

\* C5: while the handlers of a popped event run, its slot stays occupied
\* and holds that event: it is not linked, and event_add does not take it.
C5_SlotHeldDuringDispatch ==
    pc = "handlers" =>
       /\ events_storage[ev].source # NullSrc
       /\ events_storage[ev].val = popped[Len(popped)]
       /\ ev \notin Range(Linked(Queue))
       /\ FindFree(Queue) # ev

C5_Witness ==
    /\ pc = "handlers"
    /\ hdlr = NullHdlr
    /\ PoolFull
    /\ Len(added) < nadd

\* The filter of the registry, as the interface states it
Wanted(h, e) ==
    /\ HdlrSource(h) = e.source
    /\ (HdlrMask(h) = 0 \/ BitAnd(e.id, HdlrMask(h)) = HdlrId(h))

WantedOf(order) ==
    LET W(h) == Wanted(h, events_storage[ev]) IN SelectSeq(order, W)

Reverse(s) == [i \in 1..Len(s) |-> s[Len(s) + 1 - i]]

\* C6 as stated: the matching handlers are invoked in registration order.
C6_RegistrationOrder ==
    (pc = "handlers" /\ hdlr = NullHdlr) => calls = WantedOf(reg_order)

\* C6 as amended: for each popped event the registered handlers whose
\* source and mask/id filter match are invoked once each, the most
\* recently registered first (the reverse of the registration order).
C6_ReverseRegistrationOrder ==
    (pc = "handlers" /\ hdlr = NullHdlr) => calls = Reverse(WantedOf(reg_order))

C6_Witness ==
    /\ pc = "handlers"
    /\ hdlr = NullHdlr
    /\ Len(reg_order) = 3
    /\ Len(calls) = 2
    /\ events_storage[ev].id = 3

\* C7: the loop is asleep only with an empty queue, and every pending event
\* is eventually popped or cancelled, also one enqueued between the pop that
\* found the queue empty and the sleep.
C7_NoLostWakeup ==
    /\ [](pc = "asleep" => events = NULL)
    /\ \A s \in 1..MaxCallsL :
          (s \in Range(Pending(Queue))) ~> (s \in Range(popped) \cup cancelled)

C7_Witness ==
    /\ pc = "sleep_if"
    /\ ev = NULL
    /\ events # NULL

----------------------------------------------------------------------------
(* Properties of the door controller *)

\* The step in which the handler of the door runs for the popped event
IsDispatch == pc = "handlers" /\ hdlr = "dc" /\ hdlr' # hdlr

CurEv == events_storage[ev]

IsKey(e, k) == e.id = WIEGAND_READER_EVENT_KEY /\ e.val = k
IsDigit(e) ==
    e.id = WIEGAND_READER_EVENT_KEY /\ e.val \notin {WIEGAND_KEY_ESC, WIEGAND_KEY_ENTER}
IsCard(e) == e.id = WIEGAND_READER_EVENT_CARD

\* A credential is submitted: a card, or ENTER after a PIN
Attempt(e, state) ==
    \/ state = "IDLE" /\ IsCard(e)
    \/ state = "READING_PIN" /\ (IsCard(e) \/ IsKey(e, WIEGAND_KEY_ENTER))

\* The key of the credential that event e submits in the controller d
Credential(e, d) ==
    IF d.state = "IDLE" THEN U32(e.val)
    ELSE IF IsCard(e) THEN PinXor(d.pin, e.val)
    ELSE d.pin

PendingIdleTimeouts(q) ==
    {s \in Range(Linked(q)) :
        q.storage[s].source = "wr" /\ q.storage[s].id = DOOR_CTRL_EVENT_IDLE_TIMEOUT}

\* C1: OPENING is entered only by the handler, for a card or an (implicit)
\* ENTER, when check_key was called with the credential just presented and
\* returned 0; an attempt whose check_key fails, or that finds no validator
\* configured, ends in REJECTED.
C1_OpenOnlyOnSuccess ==
    [][/\ (dc'.state = "OPENING" /\ dc.state # "OPENING") =>
             /\ IsDispatch
             /\ Attempt(CurEv, dc.state)
             /\ cfg.check_key
             /\ ck'.called
             /\ ck'.ret = 0
             /\ ck'.key = Credential(CurEv, dc)
       /\ (IsDispatch /\ Attempt(CurEv, dc.state)) =>
             /\ ck'.called
             /\ (ck'.ret # 0 \/ ~ cfg.check_key) => dc'.state = "REJECTED"
       /\ (ck'.called /\ ck'.ret # 0) => dc'.state = "REJECTED"
      ]_vars

C1_Witness ==
    /\ ck.called
    /\ ck.ret = 0
    /\ ck.type = "DOOR_CTRL_PIN"
    /\ dc.state = "OPENING"

\* The transitions that C8 lists
ListedTransition(from, to, e) ==
    \/ from = "IDLE" /\ to = "READING_PIN" /\ IsDigit(e)
    \/ from \in {"IDLE", "READING_PIN"} /\ to \in {"OPENING", "REJECTED"}
          /\ Attempt(e, from)
    \/ from = "READING_PIN" /\ to = "IDLE" /\ IsKey(e, WIEGAND_KEY_ESC)
    \/ from = "READING_PIN" /\ to = "TIMEOUT" /\ e.id = DOOR_CTRL_EVENT_IDLE_TIMEOUT
    \/ to = "ERROR" /\ \/ e.id = WIEGAND_READER_ERROR
                       \/ e.id \notin {DOOR_CTRL_EVENT_STATE_CHANGED,
                                       DOOR_CTRL_EVENT_BUZZER_FINISHED,
                                       DOOR_CTRL_EVENT_IDLE_TIMEOUT,
                                       WIEGAND_READER_EVENT_KEY,
                                       WIEGAND_READER_EVENT_CARD}
                       \/ from = "IDLE" /\ IsKey(e, WIEGAND_KEY_ENTER)
    \/ from \in SettleStates /\ to = "IDLE" /\ e.id = DOOR_CTRL_EVENT_BUZZER_FINISHED

\* C8: every state change of the controller is made by its handler and is
\* one of the listed transitions; in particular a buzzer-finished event
\* changes the state only from a settle state.
C8_OnlyListedTransitions ==
    [][dc'.state # dc.state =>
          /\ IsDispatch
          /\ ListedTransition(dc.state, dc'.state, CurEv)]_vars

\* C9: in OPENING, REJECTED, TIMEOUT and ERROR a key or card event leaves
\* the controller (state, PIN, open_status, idle timer, the three
\* triggers) and the queue as they are, and check_key is not called.
C9_SettleIgnoresReader ==
    [][(/\ IsDispatch
        /\ CurEv.id \in {WIEGAND_READER_EVENT_KEY, WIEGAND_READER_EVENT_CARD}
        /\ dc.state \in SettleStates) =>
          /\ dc' = dc
          /\ ~ ck'.called
          /\ UNCHANGED qvars]_vars

C9_Witness ==
    /\ pc = "handlers"
    /\ hdlr = NullHdlr
    /\ IsDigit(CurEv)
    /\ dc.state = "OPENING"

\* C10: entering OPENING, REJECTED, TIMEOUT, ERROR or IDLE leaves the idle
\* timer descheduled and no idle-timeout event of the door pending, and
\* the handler is given an idle-timeout event only in READING_PIN.
C10_SettleCancelsIdleTimeout ==
    [][/\ (dc'.state # dc.state /\ dc'.state \in SettleStates \cup {"IDLE"}) =>
             /\ ~ dc'.idle_timer
             /\ PendingIdleTimeouts(Queue') = {}
       /\ (IsDispatch /\ CurEv.id = DOOR_CTRL_EVENT_IDLE_TIMEOUT) =>
             dc.state = "READING_PIN"
      ]_vars

\* The key a PIN entry stands for: its (last 8) digits in the low nibbles,
\* most significant first, the unused high nibbles all 0xF
PackPin(s) ==
    [i \in 1..8 |-> LET j == Len(s) - 8 + i IN IF j >= 1 THEN s[j] % 16 ELSE 15]

XorNibbles(a, b) == [i \in 1..8 |-> BitXor(a[i], b[i])]

\* C11: an idle-timeout event handled in READING_PIN moves the controller
\* to TIMEOUT and starts the timeout buzzer sequence without a check_key
\* call, and the digits of an entry that aged out are discarded: every key
\* handed to check_key is made of the digits keyed in the entry under way
\* (and the card presented) only.
C11_TimeoutDiscardsPin ==
    [][/\ (IsDispatch /\ CurEv.id = DOOR_CTRL_EVENT_IDLE_TIMEOUT
                      /\ dc.state = "READING_PIN") =>
             /\ dc'.state = "TIMEOUT"
             /\ dc'.buzzer_trigger = "buzzer_timeout_seq"
             /\ ~ ck'.called
       /\ (IsDispatch /\ ck'.called) =>
             ck'.key = (CASE ck'.type = "DOOR_CTRL_PIN" -> PackPin(keys.entered)
                          [] ck'.type = "DOOR_CTRL_CARD_AND_PIN" ->
                                XorNibbles(PackPin(keys.entered), U32(CurEv.val))
                          [] OTHER -> U32(CurEv.val))
      ]_vars

C11_Witness ==
    /\ keys.aged
    /\ ck.called
    /\ ck.type = "DOOR_CTRL_PIN"
    /\ ck.key = PackPin(<<1>>)

\* C13: a card handled in IDLE calls check_key once, with type CARD and the
\* card value, and the controller goes straight to OPENING (the validator
\* accepts) or REJECTED; the idle timer is not armed before or after and
\* the accumulator is not touched.
C13_CardInIdle ==
    [][(IsDispatch /\ dc.state = "IDLE" /\ IsCard(CurEv)) =>
          /\ ck'.n = 1
          /\ ck'.type = "DOOR_CTRL_CARD"
          /\ ck'.key = U32(CurEv.val)
          /\ dc'.state = (IF ck'.ret = 0 THEN "OPENING" ELSE "REJECTED")
          /\ ck'.ret = 0 => cfg.check_key
          /\ ~ dc.idle_timer
          /\ ~ dc'.idle_timer
          /\ dc'.pin = dc.pin
          /\ keys'.entered = <<>>]_vars

C13_Witness ==
    /\ ck.called
    /\ ck.type = "DOOR_CTRL_CARD"
    /\ dc.state = "OPENING"
    /\ keys = NoKeys

\* C12: ENTER after k <= 8 digits d1..dk keyed from IDLE calls check_key
\* once, with type PIN and the key whose low k nibbles are d1..dk and whose
\* high nibbles are 0xF (1,2,1,2 gives 0xFFFF1212); the controller enters
\* OPENING if the validator accepts and REJECTED if not, and the
\* accumulator is 0 afterwards.
C12_PinRoundTrip ==
    [][(IsDispatch /\ dc.state = "READING_PIN" /\ IsKey(CurEv, WIEGAND_KEY_ENTER)
                  /\ Len(keys.entered) \in 1..8) =>
          /\ dc.pin = PackPin(keys.entered)
          /\ ck'.n = 1
          /\ ck'.type = "DOOR_CTRL_PIN"
          /\ ck'.key = PackPin(keys.entered)
          /\ keys.entered = <<1, 2, 1, 2>> => ck'.key = <<15, 15, 15, 15, 1, 2, 1, 2>>
          /\ dc'.state = (IF ck'.ret = 0 THEN "OPENING" ELSE "REJECTED")
          /\ dc'.pin = ZeroPin]_vars

C12_Witness ==
    /\ ck.called
    /\ ck.type = "DOOR_CTRL_PIN"
    /\ ck.key = <<1, 2, 1, 2, 1, 2, 1, 2>>
    /\ dc.state = "OPENING"
    /\ dc.pin = ZeroPin

\* C14: a card handled in READING_PIN is an implicit ENTER: check_key is
\* called once, with type PIN+CARD and the accumulated PIN (the packed
\* digits of the entry) XOR the card value; the controller enters OPENING
\* or REJECTED by the result and the accumulator is 0 afterwards.
C14_CardClosesPin ==
    [][(IsDispatch /\ dc.state = "READING_PIN" /\ IsCard(CurEv)) =>
          /\ ck'.n = 1
          /\ ck'.type = "DOOR_CTRL_CARD_AND_PIN"
          /\ ck'.key = XorNibbles(dc.pin, U32(CurEv.val))
          /\ ck'.key = XorNibbles(PackPin(keys.entered), U32(CurEv.val))
          /\ dc'.state = (IF ck'.ret = 0 THEN "OPENING" ELSE "REJECTED")
          /\ dc'.pin = ZeroPin]_vars

C14_Witness ==
    /\ ck.called
    /\ ck.type = "DOOR_CTRL_CARD_AND_PIN"
    /\ ck.key = <<14, 15, 15, 15, 15, 15, 1, 1>>
    /\ dc.state = "REJECTED"
    /\ dc.pin = ZeroPin

\* The reasons to hold the door open, as the set of their source numbers
Reasons(open_status) ==
    {b \in {DOOR_OPEN_FROM_READER, DOOR_OPEN_FROM_BUTTON} :
        (open_status \div BIT(b)) % 2 = 1}

ReasonsStatus(r) ==
    (IF DOOR_OPEN_FROM_READER \in r THEN 1 ELSE 0)
    + (IF DOOR_OPEN_FROM_BUTTON \in r THEN 2 ELSE 0)

\* What one door_ctrl_set_open call does to the controller d
SetOpenOnEdge(d) ==
    \A source \in {DOOR_OPEN_FROM_READER, DOOR_OPEN_FROM_BUTTON} :
       \A status \in {0, 1} :
          LET d2 == door_ctrl_set_open(d, source, status)
              before == Reasons(d.open_status)
              after == IF status # 0 THEN before \cup {source}
                       ELSE before \ {source}
              call == set_open_call(d.open_status, d2.open_status)
          IN /\ d2.open_status = ReasonsStatus(after)
             /\ (call = "trigger_start(open_time)") = (before # {} /\ after = {})
             /\ (call = "trigger_set(1)") = (before = {} /\ after # {})
             /\ (call = "none") = ((before = {}) = (after = {}))
             /\ call = "none" =>
                   /\ d2.open_trigger = d.open_trigger
                   /\ d2.led_trigger = d.led_trigger
             /\ call # "none" =>
                   /\ d2.open_trigger = call
                   /\ d2.led_trigger = call

\* ... and what the call after it does
SetOpenOnEdgeFrom(d) ==
    /\ SetOpenOnEdge(d)
    /\ \A source \in {DOOR_OPEN_FROM_READER, DOOR_OPEN_FROM_BUTTON} :
          \A status \in {0, 1} :
             SetOpenOnEdge(door_ctrl_set_open(d, source, status))

\* C15: whatever door_ctrl_set_open calls come next (one, or one after
\* another), each sets or clears the reason of its source, commands
\* trigger_start(open_time) on relay and LED exactly when the last reason
\* goes, trigger_set(1) exactly when the first reason comes, and leaves both
\* triggers alone otherwise; a grant from the reader while the button is
\* held leaves the relay and LED latched.
C15_ReleaseOnFallingEdge ==
    /\ SetOpenOnEdgeFrom(dc)
    /\ [][/\ dc' # dc => SetOpenOnEdgeFrom(dc')
          /\ (IsDispatch /\ dc'.state = "OPENING" /\ dc.state # "OPENING") =>
                /\ dc'.open_status = dc.open_status
                /\ DOOR_OPEN_FROM_BUTTON \in Reasons(dc.open_status) =>
                      /\ dc'.open_trigger = "trigger_set(1)"
                      /\ dc'.led_trigger = "trigger_set(1)"
                /\ Reasons(dc.open_status) = {} =>
                      /\ dc'.open_trigger = "trigger_start(open_time)"
                      /\ dc'.led_trigger = "trigger_start(open_time)"
         ]_vars

C15_Witness ==
    /\ dc.state = "OPENING"
    /\ Reasons(dc.open_status) = {DOOR_OPEN_FROM_BUTTON}
    /\ dc.open_trigger = "trigger_set(1)"
    /\ dc.led_trigger = "trigger_set(1)"

\* C18: each digit handled (in IDLE or READING_PIN) leaves the idle timer
\* armed, and the controller goes from READING_PIN to TIMEOUT only once the
\* window armed by the last handled digit has elapsed: not on an
\* idle-timeout event that was queued before that digit was handled, the
\* timer armed by the digit still running.
C18_TimeoutOnlyAfterIdleWindow ==
    [][/\ (IsDispatch /\ IsDigit(CurEv) /\ dc'.state = "READING_PIN") =>
             dc'.idle_timer
       /\ (IsDispatch /\ CurEv.id = DOOR_CTRL_EVENT_IDLE_TIMEOUT
                      /\ dc.state = "READING_PIN" /\ dc'.state = "TIMEOUT") =>
             ~ dc.idle_timer
      ]_vars

\* C16: after event_add refused an event of the door (the pool was full)
\* the controller still gets back to IDLE, by its idle timer and the
\* completion of its buzzer.
C16_RecoversAfterDrop ==
    (lost # NoLoss) ~> (dc.state = "IDLE")

\* C17: a card-only record (decimal card string of a 32-bit value, 4-bit
\* door mask) and a PIN-only record (at most 8 digits) read back as the same
\* type, the same key string and the same door mask.
C17_AccessRecordRoundTrip ==
    host.phase = "read" =>
       /\ host.reply.has_key
       /\ host.reply.doors = host.args.doors
       /\ host.args.pin = Absent =>
             /\ host.reply.type = "card"
             /\ host.reply.key = host.args.card
       /\ host.args.card = Absent =>
             /\ host.reply.type = "pin"
             /\ host.reply.key = host.args.pin

\* C19: when the dispatch of an event ends, every handler that is still
\* registered and matches the event has been invoked for it, also when
\* handlers called event_handler_remove (on themselves or on another
\* handler) while they were invoked.
C19_DeregistrationKeepsTraversal ==
    (pc = "handlers" /\ hdlr = NullHdlr) =>
       \A h \in Range(Registered) :
          HandlerMatches(h, events_storage[ev]) => h \in Range(calls)

\* C20: whenever the main context is outside door_ctrl_open (both the
\* reader's set/clear sequence and the button callbacks have completed),
\* the button bit of open_status is the level the button reported last,
\* and while the button is held the last command on relay and LED is
\* trigger_set(1).
C20_ButtonBitSurvivesPreemption ==
    so.pc = "idle" =>
       /\ (dc.open_status \div BIT(DOOR_OPEN_FROM_BUTTON)) % 2 = so.level
       /\ so.level = 1 =>
             /\ dc.open_trigger = "trigger_set(1)"
             /\ dc.led_trigger = "trigger_set(1)"

\* C21: in every state the list from events is acyclic, events_tail is
\* NULL exactly when events is NULL and is the last node otherwise, every
\* linked node has a source, and every pool slot with a source is linked
\* exactly once or is the one event being dispatched, which is not linked.
C21_QueueWellFormed ==
    LET list == Linked(Queue)
        dispatched == IF pc = "handlers" THEN {ev} ELSE {}
    IN /\ Len(list) <= MAX_PENDING_EVENTS
       /\ Cardinality(Range(list)) = Len(list)
       /\ (events = NULL) = (events_tail = NULL)
       /\ events # NULL =>
             /\ events_tail = list[Len(list)]
             /\ events_storage[events_tail].next = NULL
       /\ \A i \in Range(list) : events_storage[i].source # NullSrc
       /\ dispatched \cap Range(list) = {}
       /\ {i \in Slots : events_storage[i].source # NullSrc}
             = Range(list) \cup dispatched

\* The pool is full while an event is dispatched, after event_remove has
\* unlinked events
C21_Witness ==
    /\ pc = "handlers"
    /\ PoolFull
    /\ Len(Linked(Queue)) = MAX_PENDING_EVENTS - 1
    /\ cancelled # {}

\* C22: event_handler_remove never reads through a NULL list head; called
\* on a handler that is not registered (the registry empty or not) it
\* returns -ENOENT and leaves the registry as it was; called on a registered
\* handler it returns 0 and removes that handler only, the others keeping
\* their order.
C22_RemoveUnregistered ==
    (rm.called /\ rm.h # NullHdlr) =>
       /\ ~ rm.fault
       /\ rm.h \notin Range(rm.before) =>
             /\ rm.ret = -ENOENT
             /\ rm.after = rm.before
       /\ rm.h \in Range(rm.before) =>
             /\ rm.ret = 0
             /\ rm.after = SelectSeq(rm.before, LAMBDA x : x # rm.h)

====
